---- MODULE Spec2Model ----
(***************************************************************************)
(* A model of tonic/prototype/datasets/nmnist.py: the N-MNIST binary event *)
(* decoder (NMNISTFileReader), the label extraction, the saccade filter    *)
(* and the datapipe that NMNIST._datapipe chains together.                 *)
(*                                                                         *)
(* Python indices are 0-based and TLA+ sequences 1-based: an index kept in *)
(* a sequence of indices (np.where) is the Python one, and is shifted by   *)
(* one where it is used to read a TLA+ sequence.                           *)
(***************************************************************************)
EXTENDS Integers, Sequences, FiniteSets, TLC

VARIABLES
    bin_stream,     \* SpecDecode: the bytes bin_stream.read() returns
    decoded,        \* SpecDecode: what _bin_to_array did with them
    cfg,            \* the NMNIST constructor's arguments
    dp,             \* the chain of datapipes _datapipe built
    archive,        \* the (fname, fdata) records ZipArchiveLoader yields
    pos,            \* how many records of the archive were pulled
    item,           \* the value in flight between two datapipes
    at,             \* the datapipe of dp that handles item next (0: none in flight)
    out,            \* the samples the consumer of the datapipe received
    yielded_from,   \* history: for each sample of out, the archive record it came from
    err             \* "none", "StopIteration", or the exception that ended the iteration

vars == <<bin_stream, decoded, cfg, dp, archive, pos, item, at, out, yielded_from, err>>

(***************************************************************************)
(* Program constants.                                                      *)
(***************************************************************************)
\* time_increment = 2**13
time_increment == 8192
\* all_y == 240 marks a timestamp overflow group
overflow_y == 240
\* int(1e5), the threshold of _saccade_filter
saccade_threshold == 100000
\* the stride of raw_data[k::5]
group_stride == 5

(***************************************************************************)
(* Bounds of the model.                                                    *)
(***************************************************************************)
MaxGroups == 3
MaxPathLen == 4
MaxRecords == 2

NoError == "none"

(***************************************************************************)
(* numpy's integer operations on uint32 values.  A byte shifted left by at  *)
(* most 16 stays below 2^24, and a timestamp grows by 2^13 per overflow    *)
(* marker: it would take more than 523264 markers in one buffer to reach   *)
(* 2^32, where uint32 wraps.  TLC's integers end at 2^31 - 1, so the model *)
(* computes on plain integers and covers buffers below that many markers.  *)
(***************************************************************************)
RECURSIVE BitAnd(_, _)
BitAnd(a, b) ==
    IF a = 0 \/ b = 0 THEN 0
    ELSE (IF a % 2 = 1 /\ b % 2 = 1 THEN 1 ELSE 0) + 2 * BitAnd(a \div 2, b \div 2)

RECURSIVE BitOr(_, _)
BitOr(a, b) ==
    IF a = 0 THEN b
    ELSE IF b = 0 THEN a
    ELSE (IF a % 2 = 1 \/ b % 2 = 1 THEN 1 ELSE 0) + 2 * BitOr(a \div 2, b \div 2)

ShiftLeft(a, n) == a * (2 ^ n)

ShiftRight(a, n) == a \div (2 ^ n)

\* raw_data[start::5]
Strided(raw, start) ==
    LET n == IF Len(raw) > start
             THEN (Len(raw) - start + group_stride - 1) \div group_stride
             ELSE 0
    IN [i \in 1..n |-> raw[start + group_stride * (i - 1) + 1]]

\* The length numpy broadcasts two 1-d arrays of lengths m and n to; -1 when
\* the shapes do not broadcast (ValueError).
BroadcastLen(m, n) ==
    IF m = n THEN m
    ELSE IF m = 1 THEN n
    ELSE IF n = 1 THEN m
    ELSE -1

\* Element i of a 1-d array broadcast to a longer shape.
BroadcastElem(A, i) == IF Len(A) = 1 THEN A[1] ELSE A[i]

\* A | B for 1-d arrays that broadcast.
BroadcastOr(A, B) ==
    [i \in 1..BroadcastLen(Len(A), Len(B)) |->
        BitOr(BroadcastElem(A, i), BroadcastElem(B, i))]

\* A slip: every index is kept
WhereAll(arr, v) == [i \in 1..Len(arr) |-> i - 1]

\* np.where(cond)[0]: the 0-based indices i, increasing, with cond[i]
RECURSIVE WhereFrom(_, _, _)
WhereFrom(arr, v, i) ==
    IF i > Len(arr) THEN << >>
    ELSE IF arr[i] = v THEN <<i - 1>> \o WhereFrom(arr, v, i + 1)
    ELSE WhereFrom(arr, v, i + 1)

WhereEq(arr, v) == WhereFrom(arr, v, 1)

RECURSIVE WhereNotFrom(_, _, _)
WhereNotFrom(arr, v, i) ==
    IF i > Len(arr) THEN << >>
    ELSE IF arr[i] # v THEN <<i - 1>> \o WhereNotFrom(arr, v, i + 1)
    ELSE WhereNotFrom(arr, v, i + 1)

WhereNe(arr, v) == WhereNotFrom(arr, v, 1)

\* arr[idxs] with an integer index array: whether numpy raises IndexError
IndexOutOfBounds(arr, idxs) == \E k \in 1..Len(idxs) : idxs[k] >= Len(arr)

\* arr[idxs] with an integer index array, all indices in bounds
FancyIndex(arr, idxs) == [k \in 1..Len(idxs) |-> arr[idxs[k] + 1]]

\* A slip: all_ts[:overflow_index] += time_increment
AddToPrefix(ts, overflow_index) ==
    [i \in 1..Len(ts) |->
        IF i - 1 < overflow_index
        THEN ts[i] + time_increment
        ELSE ts[i]]

\* all_ts[overflow_index:] += time_increment (a slice past the end is empty)
AddToSuffix(ts, overflow_index) ==
    [i \in 1..Len(ts) |->
        IF i - 1 >= overflow_index
        THEN ts[i] + time_increment
        ELSE ts[i]]

\* A slip: only the last overflow marker is applied
OverflowLoopLastOnly(ts, overflow_indices) ==
    IF overflow_indices = << >> THEN ts
    ELSE AddToSuffix(ts, overflow_indices[Len(overflow_indices)])

\* for overflow_index in overflow_indices: all_ts[overflow_index:] += time_increment
RECURSIVE OverflowLoop(_, _)
OverflowLoop(ts, overflow_indices) ==
    IF overflow_indices = << >> THEN ts
    ELSE OverflowLoop(AddToSuffix(ts, Head(overflow_indices)), Tail(overflow_indices))

\* tonic.io.make_structured_array(x, y, t, p, dtype): one record per index, the
\* arguments assigned to the dtype's fields ("x", "y", "t", "p") in order
make_structured_array(xs, ys, ts, ps) ==
    [i \in 1..Len(xs) |-> [x |-> xs[i], y |-> ys[i], t |-> ts[i], p |-> ps[i]]]

Raised(exc) == [raised |-> exc, events |-> << >>]

Returned(events) == [raised |-> NoError, events |-> events]

\* A slip: the polarity bit is not masked out of the timestamp
TsHighUnmasked(b) == ShiftLeft(b, 16)

\* (raw_data[2::5] & 127) << 16
TsHigh(b) == ShiftLeft(BitAnd(b, 127), 16)

\* (raw_data[2::5] & 128) >> 7
all_p_of(raw) ==
    LET b2 == Strided(raw, 2)
    IN [i \in 1..Len(b2) |-> ShiftRight(BitAnd(b2[i], 128), 7)]

\* NMNISTFileReader._bin_to_array on the bytes raw
_bin_to_array(raw) ==
    LET all_y == Strided(raw, 1)
        all_x == Strided(raw, 0)
        all_p == all_p_of(raw)
        b2 == Strided(raw, 2)
        hi == [i \in 1..Len(b2) |-> TsHigh(b2[i])]
        b3 == Strided(raw, 3)
        mid == [i \in 1..Len(b3) |-> ShiftLeft(b3[i], 8)]
        lo == Strided(raw, 4)
    IN  IF BroadcastLen(Len(hi), Len(mid)) = -1 THEN Raised("ValueError")
        ELSE LET himid == BroadcastOr(hi, mid)
             IN IF BroadcastLen(Len(himid), Len(lo)) = -1 THEN Raised("ValueError")
                ELSE LET all_ts0 == BroadcastOr(himid, lo)
                         overflow_indices == WhereEq(all_y, overflow_y)
                         all_ts == OverflowLoop(all_ts0, overflow_indices)
                         td_indices == WhereNe(all_y, overflow_y)
                     IN IF \/ IndexOutOfBounds(all_x, td_indices)
                           \/ IndexOutOfBounds(all_y, td_indices)
                           \/ IndexOutOfBounds(all_ts, td_indices)
                           \/ IndexOutOfBounds(all_p, td_indices)
                        THEN Raised("IndexError")
                        ELSE Returned(make_structured_array(
                                 FancyIndex(all_x, td_indices),
                                 FancyIndex(all_y, td_indices),
                                 FancyIndex(all_ts, td_indices),
                                 FancyIndex(all_p, td_indices)))

(***************************************************************************)
(* Inputs of the decoder: buffers of up to MaxGroups five-byte groups      *)
(* followed by a partial group of 0 to 4 bytes.                            *)
(***************************************************************************)
\* x=1, y=2, p=0, raw timestamp 5
GroupA == <<1, 2, 0, 0, 5>>
\* an overflow marker
GroupMarker == <<0, 240, 0, 0, 0>>
\* x=3, y=4, p=1, raw timestamp 10
GroupB == <<3, 4, 128, 0, 10>>
\* p=1, raw timestamp 100000 (0x0186A0)
GroupAtThreshold == <<33, 33, 129, 134, 160>>
\* x=240 (not a marker: y=0), p=0, raw timestamp 100001
GroupPastThreshold == <<240, 0, 1, 134, 161>>
\* an overflow marker with every other bit set
GroupMarkerFull == <<7, 240, 255, 255, 255>>
\* p=0, the largest raw timestamp, 2^23 - 1
GroupMaxTs == <<5, 6, 127, 255, 255>>

Groups == {GroupA, GroupMarker, GroupB, GroupAtThreshold, GroupPastThreshold,
           GroupMarkerFull, GroupMaxTs}

TailGroups == {GroupA, GroupMarker, GroupMaxTs}

RECURSIVE Flatten(_)
Flatten(gs) == IF gs = << >> THEN << >> ELSE Head(gs) \o Flatten(Tail(gs))

GroupSeqs == UNION {[1..n -> Groups] : n \in 0..MaxGroups}

PartialGroups == {SubSeq(g, 1, k) : g \in TailGroups, k \in 0..(group_stride - 1)}

Buffers == {Flatten(gs) \o tl : gs \in GroupSeqs, tl \in PartialGroups}

NotRun == [raised |-> "not run", events |-> << >>]

InitDecode ==
    /\ bin_stream \in Buffers
    /\ decoded = NotRun
    /\ cfg = << >>
    /\ dp = << >>
    /\ archive = << >>
    /\ pos = 0
    /\ item = << >>
    /\ at = 0
    /\ out = << >>
    /\ yielded_from = << >>
    /\ err = NoError

Decode ==
    /\ decoded = NotRun
    /\ decoded' = _bin_to_array(bin_stream)
    /\ UNCHANGED <<bin_stream, cfg, dp, archive, pos, item, at, out, yielded_from, err>>

NextDecode == Decode

SpecDecode == InitDecode /\ [][NextDecode]_vars

(***************************************************************************)
(* A str is the sequence of its characters' code points.                   *)
(***************************************************************************)
\* str.endswith
EndsWith(s, suffix) ==
    Len(s) >= Len(suffix) /\ SubSeq(s, Len(s) - Len(suffix) + 1, Len(s)) = suffix

\* ".bin"
DotBin == <<46, 98, 105, 110>>

\* A slip: every file of the archive is let through
_filter_nothing(name) == TRUE

\* NMNIST._filter
_filter(name) == EndsWith(name, DotBin)

\* str.split(sep): the pieces between the separators, empty ones kept
RECURSIVE SplitFrom(_, _, _)
SplitFrom(s, sep, cur) ==
    IF s = << >> THEN <<cur>>
    ELSE IF Head(s) = sep THEN <<cur>> \o SplitFrom(Tail(s), sep, << >>)
    ELSE SplitFrom(Tail(s), sep, Append(cur, Head(s)))

Split(s, sep) == SplitFrom(s, sep, << >>)

\* "/"
Slash == 47
\* "+"
PlusSign == 43
\* "-"
MinusSign == 45
\* "_"
Underscore == 95

\* The characters int() strips from both ends of a str: tab, LF, VT, FF, CR,
\* space, NEL, NBSP, Ogham space, U+2000..U+200A, line and paragraph
\* separators, narrow NBSP, medium mathematical space, ideographic space.
Whitespace ==
    {9, 10, 11, 12, 13, 32, 133, 160, 5760} \cup (8192..8202)
        \cup {8232, 8233, 8239, 8287, 12288}

\* The code point of the digit zero of every Unicode decimal-digit script
\* (category Nd); the digits one to nine follow it.
DecimalZeros ==
    {48, 1632, 1776, 1984, 2406, 2534, 2662, 2790, 2918, 3046, 3174, 3302,
     3430, 3558, 3664, 3792, 3872, 4160, 4240, 6112, 6160, 6470, 6608, 6784,
     6800, 6992, 7088, 7232, 7248, 42528, 43216, 43264, 43472, 43504, 43600,
     44016, 65296, 66720, 68912, 69734, 69872, 69942, 70096, 70384, 70736,
     70864, 71248, 71360, 71472, 71904, 72016, 72784, 73040, 73120, 92768,
     92864, 93008, 120782, 120792, 120802, 120812, 120822, 123200, 123632,
     125264, 130032}

IsDigit(c) == \E z \in DecimalZeros : c \in z..(z + 9)

DigitValue(c) == c - (CHOOSE z \in DecimalZeros : c \in z..(z + 9))

RECURSIVE LStrip(_)
LStrip(s) == IF s # << >> /\ Head(s) \in Whitespace THEN LStrip(Tail(s)) ELSE s

RECURSIVE RStrip(_)
RStrip(s) ==
    IF s # << >> /\ s[Len(s)] \in Whitespace THEN RStrip(SubSeq(s, 1, Len(s) - 1)) ELSE s

Failed(exc) == [raised |-> exc, value |-> 0]

\* The digits of an int() literal, left to right: a digit, or one underscore
\* after a digit; the literal ends on a digit.
RECURSIVE ScanDigits(_, _, _)
ScanDigits(s, acc, prev) ==
    IF s = << >>
    THEN IF prev = "digit" THEN [raised |-> NoError, value |-> acc] ELSE Failed("ValueError")
    ELSE IF IsDigit(Head(s)) THEN ScanDigits(Tail(s), acc * 10 + DigitValue(Head(s)), "digit")
    ELSE IF Head(s) = Underscore /\ prev = "digit" THEN ScanDigits(Tail(s), acc, "underscore")
    ELSE Failed("ValueError")

\* sys.int_info.default_max_str_digits: int() refuses longer literals
int_max_str_digits == 4300

\* int(s) for a str s: surrounding whitespace, an optional sign, base 10.
\* Values are computed on the model checker's integers, so the model covers
\* literals below 2^31.
py_int(s) ==
    LET core == RStrip(LStrip(s))
        signed == core # << >> /\ Head(core) \in {PlusSign, MinusSign}
        body == IF signed THEN Tail(core) ELSE core
        digits == ScanDigits(body, 0, "start")
    IN IF Len(SelectSeq(body, IsDigit)) > int_max_str_digits THEN Failed("ValueError")
       ELSE IF digits.raised # NoError THEN digits
       ELSE IF signed /\ Head(core) = MinusSign
            THEN [raised |-> NoError, value |-> 0 - digits.value]
            ELSE digits

\* A slip: the last segment instead of the one before it
_get_target_last(name) ==
    LET parts == Split(name, Slash)
    IN py_int(parts[Len(parts)])

\* NMNISTFileReader._get_target: int(fname.split("/")[-2])
_get_target(name) ==
    LET parts == Split(name, Slash)
    IN IF Len(parts) < 2 THEN Failed("IndexError")
       ELSE py_int(parts[Len(parts) - 1])

(***************************************************************************)
(* The saccade filter.                                                     *)
(***************************************************************************)
\* A slip: t >= int(1e5)
SaccadeMaskInclusive(events) == [i \in 1..Len(events) |-> events[i].t >= saccade_threshold]

\* events["t"] > int(1e5)
SaccadeMask(events) == [i \in 1..Len(events) |-> events[i].t > saccade_threshold]

\* arr[mask] with a boolean mask of arr's length
RECURSIVE BooleanIndex(_, _)
BooleanIndex(arr, mask) ==
    IF arr = << >> THEN << >>
    ELSE IF Head(mask) THEN <<Head(arr)>> \o BooleanIndex(Tail(arr), Tail(mask))
    ELSE BooleanIndex(Tail(arr), Tail(mask))

\* NMNIST._saccade_filter
_saccade_filter(events) == BooleanIndex(events, SaccadeMask(events))

(***************************************************************************)
(* Values in the datapipe.  What a user's callable returns is unknown, so  *)
(* a value is kept as a term: val, what the dataset's own code computed,   *)
(* and fns, the user callables applied on top of it, innermost first.      *)
(* A sample is the term of a pair (events, label) of two such terms.       *)
(***************************************************************************)
None == "None"

NoCol == -1

NoItem == << >>

Plain(v) == [fns |-> << >>, val |-> v]

Opaque(fn, x) == [fns |-> Append(x.fns, fn), val |-> x.val]

\* User callables that raise RuntimeError on some arguments:
\* strict_transforms on a sample without events, strict_transform on an
\* empty array of events, strict_target_transform on the label 3
Strict == {"strict_transforms", "strict_transform", "strict_target_transform"}

\* What the call fn(x) raises, NoError when it returns
CallRaises(fn, x) ==
    IF fn \notin Strict THEN NoError
    ELSE IF fn = "strict_transforms"
         THEN IF x.val[1].val = << >> THEN "RuntimeError" ELSE NoError
    ELSE IF fn = "strict_transform"
         THEN IF x.val = << >> THEN "RuntimeError" ELSE NoError
    ELSE IF x.val = 3 THEN "RuntimeError" ELSE NoError

\* fn(x) for a callable a Mapper holds, when the call returns
Call(fn, x) ==
    IF fn = "_saccade_filter" THEN Plain(_saccade_filter(x.val))
    ELSE Opaque(fn, x)

\* The argument torchdata's Mapper passes to its callable: the whole item,
\* or its column input_col
MapperInput(stage, data) ==
    IF stage.input_col = NoCol THEN data ELSE data.val[stage.input_col + 1]

\* torchdata's Mapper: fn on the whole item, or on column input_col with the
\* result stored in column output_col (input_col when output_col is None)
MapperApply(stage, data) ==
    IF stage.input_col = NoCol THEN Call(stage.fn, data)
    ELSE LET res == Call(stage.fn, data.val[stage.input_col + 1])
             col == IF stage.output_col = NoCol THEN stage.input_col ELSE stage.output_col
         IN [data EXCEPT !.val[col + 1] = res]

FilterStage ==
    [kind |-> "Filter", fn |-> "_filter", input_col |-> 0, output_col |-> NoCol]

ReaderStage ==
    [kind |-> "NMNISTFileReader", fn |-> "__iter__", input_col |-> NoCol, output_col |-> NoCol]

MapperStage(fn, input_col, output_col) ==
    [kind |-> "Mapper", fn |-> fn, input_col |-> input_col, output_col |-> output_col]

\* Callables whose truth value is False: they define __len__ and it gives 0
Falsy == {"empty_transforms", "empty_transform", "empty_target_transform"}

\* bool(v) for an argument that is None or a callable
Truthy(v) == v # None /\ v \notin Falsy

\* NMNIST._datapipe: the datapipes chained on top of the archive loader; every
\* option is tested for its truth value (first_saccade_only is a bool)
_datapipe(c) ==
    LET read == <<FilterStage, ReaderStage>>
        first == IF c.first_saccade_only
                 THEN Append(read, MapperStage("_saccade_filter", 0, NoCol))
                 ELSE read
    IN IF Truthy(c.transforms)
       THEN Append(first, MapperStage(c.transforms, NoCol, NoCol))
       ELSE LET data == IF Truthy(c.transform)
                        THEN Append(first, MapperStage(c.transform, 0, 0))
                        ELSE first
            IN IF Truthy(c.target_transform)
               THEN Append(data, MapperStage(c.target_transform, 1, 1))
               ELSE data

\* One step of NMNISTFileReader.__iter__ on a record: the tuple's first
\* element, self._bin_to_array(fdata), is evaluated before the second,
\* self._get_target(fname)
ReadRecord(record) ==
    LET events == _bin_to_array(record[2])
        label == _get_target(record[1])
    IN IF events.raised # NoError THEN [raised |-> events.raised, sample |-> NoItem]
       ELSE IF label.raised # NoError THEN [raised |-> label.raised, sample |-> NoItem]
       ELSE [raised |-> NoError,
             sample |-> Plain(<<Plain(events.events), Plain(label.value)>>)]

(***************************************************************************)
(* The datapipe as a state machine.  Iteration is lazy: the consumer's     *)
(* next() pulls one record out of the archive and the record goes through  *)
(* the chain dp, one datapipe at a time, before the next record is pulled. *)
(***************************************************************************)
Running == err = NoError

\* ZipArchiveLoader yields its next record
ArchiveNext ==
    /\ Running /\ at = 0 /\ pos < Len(archive)
    /\ item' = archive[pos + 1]
    /\ pos' = pos + 1
    /\ at' = 1
    /\ UNCHANGED <<bin_stream, decoded, cfg, dp, archive, out, yielded_from, err>>

\* ZipArchiveLoader is exhausted: StopIteration ends the iteration
ArchiveExhausted ==
    /\ Running /\ at = 0 /\ pos = Len(archive)
    /\ err' = "StopIteration"
    /\ UNCHANGED <<bin_stream, decoded, cfg, dp, archive, pos, item, at, out, yielded_from>>

\* Filter(dp, self._filter, input_col=0): the record goes on, or is dropped
FilterStep ==
    /\ Running /\ at \in 1..Len(dp) /\ dp[at].kind = "Filter"
    /\ IF _filter(item[dp[at].input_col + 1])
       THEN /\ at' = at + 1
            /\ item' = item
       ELSE /\ at' = 0
            /\ item' = NoItem
    /\ UNCHANGED <<bin_stream, decoded, cfg, dp, archive, pos, out, yielded_from, err>>

\* NMNISTFileReader.__iter__: the sample goes on, or the exception ends the
\* iteration
ReaderStep ==
    /\ Running /\ at \in 1..Len(dp) /\ dp[at].kind = "NMNISTFileReader"
    /\ LET r == ReadRecord(item)
       IN IF r.raised = NoError
          THEN /\ item' = r.sample
               /\ at' = at + 1
               /\ err' = err
          ELSE /\ item' = NoItem
               /\ at' = 0
               /\ err' = r.raised
    /\ UNCHANGED <<bin_stream, decoded, cfg, dp, archive, pos, out, yielded_from>>

\* A Mapper applies its callable: the result goes on, or the callable's
\* exception ends the iteration
MapperStep ==
    /\ Running /\ at \in 1..Len(dp) /\ dp[at].kind = "Mapper"
    /\ LET raised == CallRaises(dp[at].fn, MapperInput(dp[at], item))
       IN IF raised = NoError
          THEN /\ item' = MapperApply(dp[at], item)
               /\ at' = at + 1
               /\ err' = err
          ELSE /\ item' = NoItem
               /\ at' = 0
               /\ err' = raised
    /\ UNCHANGED <<bin_stream, decoded, cfg, dp, archive, pos, out, yielded_from>>

\* The last datapipe yields the sample to the consumer
Yield ==
    /\ Running /\ at = Len(dp) + 1
    /\ out' = Append(out, item)
    /\ yielded_from' = Append(yielded_from, pos)
    /\ item' = NoItem
    /\ at' = 0
    /\ UNCHANGED <<bin_stream, decoded, cfg, dp, archive, pos, err>>

Next ==
    \/ ArchiveNext
    \/ ArchiveExhausted
    \/ FilterStep
    \/ ReaderStep
    \/ MapperStep
    \/ Yield

\* An optional callable argument: not given, a callable that always returns,
\* a callable whose truth value is False, or a callable that raises on some
\* arguments
Cfgs ==
    [first_saccade_only : BOOLEAN,
     transforms : {None, "transforms", "empty_transforms", "strict_transforms"},
     transform : {None, "transform", "empty_transform", "strict_transform"},
     target_transform :
         {None, "target_transform", "empty_target_transform", "strict_target_transform"}]

\* The configurations whose callables always return
TotalCfgs ==
    {c \in Cfgs : {c.transforms, c.transform, c.target_transform} \cap Strict = {}}

\* NMNIST.__init__ on an archive: the arguments are kept and the datapipe built
InitDataset(c, records) ==
    /\ bin_stream = << >>
    /\ decoded = NotRun
    /\ cfg = c
    /\ dp = _datapipe(c)
    /\ archive = records
    /\ pos = 0
    /\ item = NoItem
    /\ at = 0
    /\ out = << >>
    /\ yielded_from = << >>
    /\ err = NoError

(***************************************************************************)
(* Spec: archives of up to MaxRecords records, every configuration.        *)
(***************************************************************************)
\* "t/7/a.bin"
PathLabel7 == <<116, 47, 55, 47, 97, 46, 98, 105, 110>>
\* "3/b.bin"
PathLabel3 == <<51, 47, 98, 46, 98, 105, 110>>
\* "x/a.bin": the directory is no integer
PathBadLabel == <<120, 47, 97, 46, 98, 105, 110>>
\* "t/7/a.txt": not a .bin file
PathNotBin == <<116, 47, 55, 47, 97, 46, 116, 120, 116>>


\* events at t = 5 and, after one marker, t = 100001 + 8192
BufTwoEvents == Flatten(<<GroupA, GroupMarker, GroupPastThreshold>>)
\* one event at t = 100000
BufOneEvent == Flatten(<<GroupAtThreshold>>)
\* a complete group and two bytes of the next
BufPartial == GroupA \o <<3, 4>>

ArchiveRecords ==
    {<<PathLabel7, BufTwoEvents>>, <<PathLabel3, BufOneEvent>>,
     <<PathBadLabel, BufTwoEvents>>, <<PathNotBin, BufTwoEvents>>,
     <<PathLabel7, BufPartial>>}

Archives == UNION {[1..n -> ArchiveRecords] : n \in 0..MaxRecords}

Init == \E c \in Cfgs, records \in Archives : InitDataset(c, records)

Spec == Init /\ [][Next]_vars

(***************************************************************************)
(* SpecTarget: one record, its name any string of up to MaxPathLen         *)
(* characters followed by ".bin" (or a short name without it).             *)
(***************************************************************************)
\* "/", "7", ARABIC-INDIC DIGIT THREE, "-", "_", space, tab, "x"
PathAlphabet == {47, 55, 1635, 45, 95, 32, 9, 120}

Stems == UNION {[1..n -> PathAlphabet] : n \in 0..MaxPathLen}

TargetPaths == {s \o DotBin : s \in Stems} \cup {s \in Stems : Len(s) <= 1}

NoOptions ==
    [first_saccade_only |-> FALSE, transforms |-> None,
     transform |-> None, target_transform |-> None]

TargetCfgs ==
    {NoOptions,
     [NoOptions EXCEPT !.first_saccade_only = TRUE, !.transforms = "transforms"]}

InitTarget ==
    \E c \in TargetCfgs, p \in TargetPaths, b \in {BufTwoEvents, BufPartial} :
        InitDataset(c, <<<<p, b>>>>)

SpecTarget == InitTarget /\ [][Next]_vars

(***************************************************************************)
(* SpecSaccade: one record of up to MaxGroups complete groups, every       *)
(* configuration whose callables always return.                            *)
(***************************************************************************)
InitSaccade ==
    \E c \in TotalCfgs, gs \in GroupSeqs : InitDataset(c, <<<<PathLabel7, Flatten(gs)>>>>)

SpecSaccade == InitSaccade /\ [][Next]_vars

(***************************************************************************)
(* The decoder's claims.  A buffer is read here as the specification reads *)
(* it: group g (from 1) is bytes 5(g-1)+1 .. 5g, byte k of it (from 0) its  *)
(* field b_k.                                                              *)
(***************************************************************************)
Ran == decoded # NotRun

Complete(buf) == Len(buf) % 5 = 0

NGroups(buf) == Len(buf) \div 5

GroupByte(buf, g, k) == buf[5 * (g - 1) + k + 1]

IsMarker(buf, g) == GroupByte(buf, g, 1) = 240

MarkersBefore(buf, g) == Cardinality({h \in 1..(g - 1) : IsMarker(buf, h)})

NonMarkers(buf) == {g \in 1..NGroups(buf) : ~IsMarker(buf, g)}

\* (b2 & 0x7F) << 16 | b3 << 8 | b4, the three parts being disjoint bit ranges
RawField(buf, g) ==
    (GroupByte(buf, g, 2) % 128) * 65536 + GroupByte(buf, g, 3) * 256
        + GroupByte(buf, g, 4)

\* Where non-marker group g lands in the output once the markers are dropped
OutIndex(buf, g) == g - MarkersBefore(buf, g)

\* C1: in a buffer of complete groups, a non-marker group preceded by k
\* overflow markers comes out with timestamp raw field + k * 8192 (the raw
\* field itself when k = 0).
C1_OverflowOffset ==
    (Ran /\ Complete(bin_stream)) =>
        /\ decoded.raised = NoError
        /\ \A g \in NonMarkers(bin_stream) :
              /\ OutIndex(bin_stream, g) \in 1..Len(decoded.events)
              /\ decoded.events[OutIndex(bin_stream, g)].t =
                     RawField(bin_stream, g) + MarkersBefore(bin_stream, g) * 8192

\* A decoded buffer in which a group with its polarity bit set follows two
\* markers.
C1_Witness ==
    /\ Ran /\ Complete(bin_stream) /\ decoded.raised = NoError
    /\ \E g \in NonMarkers(bin_stream) :
          /\ MarkersBefore(bin_stream, g) = 2
          /\ GroupByte(bin_stream, g, 2) >= 128
          /\ decoded.events[OutIndex(bin_stream, g)].t = RawField(bin_stream, g) + 16384

\* C2: in a buffer of complete groups the output is exactly the groups with
\* y # 240, in their order, with x = b0, y = b1 and p = bit 7 of b2; so there
\* are as many events as groups less markers, and none for the empty buffer.
C2_MarkersRemoved ==
    (Ran /\ Complete(bin_stream)) =>
        /\ decoded.raised = NoError
        /\ Len(decoded.events) = NGroups(bin_stream)
               - Cardinality({g \in 1..NGroups(bin_stream) : IsMarker(bin_stream, g)})
        /\ \A g \in NonMarkers(bin_stream) :
              LET e == decoded.events[OutIndex(bin_stream, g)]
              IN /\ e.x = GroupByte(bin_stream, g, 0)
                 /\ e.y = GroupByte(bin_stream, g, 1)
                 /\ e.p = GroupByte(bin_stream, g, 2) \div 128
        /\ (bin_stream = << >> => decoded.events = << >>)

\* A decoded buffer with a marker between two events, the second with p = 1.
C2_Witness ==
    /\ Ran /\ Complete(bin_stream) /\ NGroups(bin_stream) = 3
    /\ ~IsMarker(bin_stream, 1) /\ IsMarker(bin_stream, 2) /\ ~IsMarker(bin_stream, 3)
    /\ Len(decoded.events) = 2
    /\ decoded.events[2].p = 1
    /\ decoded.events[2].x = GroupByte(bin_stream, 3, 0)

\* C3: for a buffer of any length the decoder does not raise and gives what
\* it gives for the buffer cut to floor(len/5)*5 bytes.
C3_PartialGroupDropped ==
    Ran => /\ decoded.raised = NoError
           /\ decoded = _bin_to_array(SubSeq(bin_stream, 1, 5 * (Len(bin_stream) \div 5)))

\* C4: output timestamps never decrease from one event to the next (stated
\* here for the buffers of complete groups).
C4_Monotone ==
    (Ran /\ Complete(bin_stream) /\ decoded.raised = NoError) =>
        \A i \in 1..(Len(decoded.events) - 1) :
            decoded.events[i].t <= decoded.events[i + 1].t

\* The raw fields of the non-marker groups do not decrease in buffer order.
RawSorted(buf) ==
    \A g, h \in NonMarkers(buf) : g < h => RawField(buf, g) <= RawField(buf, h)

\* C4, amended: in a buffer of complete groups whose non-marker groups' raw
\* timestamp fields do not decrease in buffer order, the output timestamps
\* do not decrease from one event to the next.
C4_MonotoneWhenRawSorted ==
    (Ran /\ Complete(bin_stream) /\ RawSorted(bin_stream)) =>
        /\ decoded.raised = NoError
        /\ \A i \in 1..(Len(decoded.events) - 1) :
              decoded.events[i].t <= decoded.events[i + 1].t

\* A decoded buffer, raw fields sorted, with a marker between two events.
C4_Witness ==
    /\ Ran /\ Complete(bin_stream) /\ RawSorted(bin_stream)
    /\ NGroups(bin_stream) = 3
    /\ ~IsMarker(bin_stream, 1) /\ IsMarker(bin_stream, 2) /\ ~IsMarker(bin_stream, 3)
    /\ RawField(bin_stream, 1) < RawField(bin_stream, 3)
    /\ Len(decoded.events) = 2
    /\ decoded.events[1].t < decoded.events[2].t

\* The single pass of the specification: keep running_offset, give every
\* group (a marker too) its raw timestamp plus running_offset, then add 8192
\* to running_offset at a marker.
RECURSIVE SinglePass(_, _, _)
SinglePass(buf, g, running_offset) ==
    IF g > NGroups(buf) THEN << >>
    ELSE <<[x |-> GroupByte(buf, g, 0),
            y |-> GroupByte(buf, g, 1),
            t |-> RawField(buf, g) + running_offset,
            p |-> GroupByte(buf, g, 2) \div 128]>>
         \o SinglePass(buf, g + 1,
                       IF IsMarker(buf, g) THEN running_offset + 8192
                       ELSE running_offset)

NotMarkerEvent(e) == e.y # 240

\* C9: on a buffer of complete groups the code's loop over the markers and
\* the single forward pass give the same events once markers are dropped.
C9_LoopEqualsSinglePass ==
    (Ran /\ Complete(bin_stream)) =>
        /\ decoded.raised = NoError
        /\ decoded.events = SelectSeq(SinglePass(bin_stream, 1, 0), NotMarkerEvent)

\* A decoded buffer that starts with two markers back to back, or ends with
\* a marker after an event that follows one.
C9_Witness ==
    /\ Ran /\ Complete(bin_stream) /\ NGroups(bin_stream) = 3
    /\ IsMarker(bin_stream, 1) /\ IsMarker(bin_stream, 2) /\ ~IsMarker(bin_stream, 3)
    /\ decoded.events = SelectSeq(SinglePass(bin_stream, 1, 0), NotMarkerEvent)
    /\ decoded.events[1].t = RawField(bin_stream, 3) + 16384

(***************************************************************************)
(* The datapipe's claims.                                                  *)
(***************************************************************************)
\* The events _bin_to_array gives for record i of the archive
DecodedEvents(i) == _bin_to_array(archive[i][2]).events

\* item has just left the Mapper of _saccade_filter
PastSaccade ==
    /\ at - 1 \in 1..Len(dp)
    /\ dp[at - 1].fn = "_saccade_filter"

\* The indices of the events with t > 100000
LaterThanT(ev) == {i \in 1..Len(ev) : ev[i].t > 100000}

\* C5: the saccade filter returns exactly the events with t > 100000, in
\* their order and unchanged; an event with t = 100000 is removed.
C5_SaccadeFilterKeepsLater ==
    PastSaccade =>
        LET ev == DecodedEvents(pos)
            kept == item.val[1].val
            K == LaterThanT(ev)
        IN /\ Len(kept) = Cardinality(K)
           /\ \A i \in K : kept[Cardinality({j \in K : j <= i})] = ev[i]
           /\ \A j \in 1..Len(kept) : kept[j].t # 100000

\* The filter has run on events at t = 100000, below and above it, and kept
\* only the event above.
C5_Witness ==
    /\ PastSaccade
    /\ \E i, j, k \in 1..Len(DecodedEvents(pos)) :
          /\ DecodedEvents(pos)[i].t = 100000
          /\ DecodedEvents(pos)[j].t < 100000
          /\ DecodedEvents(pos)[k].t > 100000
          /\ item.val[1].val = <<DecodedEvents(pos)[k]>>

Range(seq) == {seq[i] : i \in 1..Len(seq)}

\* C6: with first_saccade_only, a yielded sample holds the earliest part of
\* the recording: every event kept is no later than every event removed.
C6_FirstSaccadeKept ==
    cfg.first_saccade_only =>
        \A k \in 1..Len(out) :
            LET kept == Range(out[k].val[1].val)
                removed == Range(DecodedEvents(yielded_from[k])) \ kept
            IN \A e \in kept, r \in removed : e.t <= r.t

SlashPositions(s) == {i \in 1..Len(s) : s[i] = 47}

Max(S) == CHOOSE x \in S : \A y \in S : y <= x

Min(S) == CHOOSE x \in S : \A y \in S : x <= y

FewerThanTwoSegments(s) == SlashPositions(s) = {}

\* The text between the last "/" and the "/" before it (or the start)
SecondToLastSegment(s) ==
    LET last == Max(SlashPositions(s))
        before == {i \in SlashPositions(s) : i < last}
        start == IF before = {} THEN 0 ELSE Max(before)
    IN SubSeq(s, start + 1, last - 1)

\* A Unicode decimal digit: one of the ten code points from a script's zero
IsDecimalDigit(c) == \E z \in DecimalZeros : z <= c /\ c <= z + 9

DecimalValue(c) == c - Max({z \in DecimalZeros : z <= c})

\* Python's integer literal in base 10: whitespace around, an optional sign
\* ("+" or "-"), digits with single underscores between them, no more than
\* 4300 digits
IsIntegerLiteral(seg) ==
    \E a, b \in 1..Len(seg) :
        /\ a <= b
        /\ \A i \in 1..Len(seg) : (i < a \/ i > b) => seg[i] \in Whitespace
        /\ LET from == IF seg[a] \in {43, 45} THEN a + 1 ELSE a
           IN /\ from <= b
              /\ IsDecimalDigit(seg[from])
              /\ IsDecimalDigit(seg[b])
              /\ \A i \in from..b : IsDecimalDigit(seg[i]) \/ seg[i] = 95
              /\ \A i \in from..(b - 1) : ~(seg[i] = 95 /\ seg[i + 1] = 95)
              /\ Cardinality({i \in from..b : IsDecimalDigit(seg[i])}) <= 4300

RECURSIVE Magnitude(_)
Magnitude(digits) ==
    IF digits = << >> THEN 0
    ELSE DecimalValue(digits[Len(digits)]) + 10 * Magnitude(SubSeq(digits, 1, Len(digits) - 1))

IntegerValue(seg) ==
    LET m == Magnitude(SelectSeq(seg, IsDecimalDigit))
    IN IF \E i \in 1..Len(seg) : seg[i] = 45 THEN 0 - m ELSE m

LabelFails(s) ==
    FewerThanTwoSegments(s) \/ ~IsIntegerLiteral(SecondToLastSegment(s))

LabelErrors == {"IndexError", "ValueError"}

\* C7: the label is the integer value of the second-to-last "/"-delimited
\* segment; extraction fails exactly when the path has fewer than two
\* segments or that segment is no integer, and then the error reaches the
\* caller: the record yields no sample and the iteration does not go on.
C7_LabelOrError ==
    LET name == archive[1][1]
    IN (pos = 1 /\ _filter(name) /\ _bin_to_array(archive[1][2]).raised = NoError) =>
          /\ LabelFails(name) =>
                /\ at <= 2
                /\ out = << >>
                /\ err # "StopIteration"
                /\ (at = 0 => err \in LabelErrors /\ item = NoItem)
          /\ ~LabelFails(name) =>
                /\ err \notin LabelErrors
                /\ (at >= 3 => item.val[2].val = IntegerValue(SecondToLastSegment(name)))
                /\ \A k \in 1..Len(out) :
                      out[k].val[2].val = IntegerValue(SecondToLastSegment(name))

\* A path of two segments or more whose second-to-last segment is no
\* integer: the reader raised and nothing was yielded.
C7_Witness ==
    /\ pos = 1 /\ _filter(archive[1][1])
    /\ _bin_to_array(archive[1][2]).raised = NoError
    /\ ~FewerThanTwoSegments(archive[1][1])
    /\ ~IsIntegerLiteral(SecondToLastSegment(archive[1][1]))
    /\ err = "ValueError"
    /\ out = << >>

HasBinName(record) ==
    /\ Len(record[1]) >= 4
    /\ SubSeq(record[1], Len(record[1]) - 3, Len(record[1])) = <<46, 98, 105, 110>>

\* The indices, increasing, of the records below index bound named *.bin
RECURSIVE BinIndices(_, _)
BinIndices(i, bound) ==
    IF i >= bound THEN << >>
    ELSE IF HasBinName(archive[i]) THEN <<i>> \o BinIndices(i + 1, bound)
    ELSE BinIndices(i + 1, bound)

PastThreshold(e) == e.t > 100000

\* Sample k was made of the bytes and of the path of the record it came from
OwnRecord(k) ==
    LET r == archive[yielded_from[k]]
        d == _bin_to_array(r[2])
        l == _get_target(r[1])
    IN /\ d.raised = NoError
       /\ l.raised = NoError
       /\ out[k].val[2].val = l.value
       /\ out[k].val[1].val =
              IF cfg.first_saccade_only THEN SelectSeq(d.events, PastThreshold)
              ELSE d.events

\* C8: once the iteration has ended there is exactly one sample per record
\* named *.bin, in the records' order, each made of its own record.
C8_OneSamplePerBinRecord ==
    err # NoError =>
        /\ yielded_from = BinIndices(1, Len(archive) + 1)
        /\ Len(out) = Len(yielded_from)
        /\ \A k \in 1..Len(out) : OwnRecord(k)

\* A Mapper of the datapipe holds the callable fn
Applied(fn) == \E i \in 1..Len(dp) : dp[i].kind = "Mapper" /\ dp[i].fn = fn

\* What a record makes the stages after the filter raise: the reader's
\* exception (decoding, then label extraction), or else RuntimeError when a
\* user callable of the datapipe rejects the events or the label it is given
RaisedOn(r) ==
    LET d == _bin_to_array(r[2])
        l == _get_target(r[1])
        e == IF cfg.first_saccade_only THEN SelectSeq(d.events, PastThreshold)
             ELSE d.events
    IN IF d.raised # NoError THEN d.raised
       ELSE IF l.raised # NoError THEN l.raised
       ELSE IF \/ Applied("strict_transforms") /\ e = << >>
               \/ Applied("strict_transform") /\ e = << >>
               \/ Applied("strict_target_transform") /\ l.value = 3
            THEN "RuntimeError"
       ELSE NoError

\* The *.bin records on which a stage raises
FailingRecords ==
    {i \in 1..Len(archive) : HasBinName(archive[i]) /\ RaisedOn(archive[i]) # NoError}

FirstFailure == IF FailingRecords = {} THEN Len(archive) + 1 ELSE Min(FailingRecords)

IsPrefix(s, t) == Len(s) <= Len(t) /\ s = SubSeq(t, 1, Len(s))

\* C8, amended: the samples are, in the records' order, one per record named
\* *.bin that comes before the first *.bin record on which a stage raises
\* (decoding, label extraction or a user callable; every *.bin record when
\* none raises), each made of its own record; at that record the exception
\* ends the iteration.
C8_OneSamplePerBinRecordUntilRaise ==
    /\ Len(out) = Len(yielded_from)
    /\ IsPrefix(yielded_from, BinIndices(1, FirstFailure))
    /\ \A k \in 1..Len(out) : OwnRecord(k)
    /\ err # NoError => yielded_from = BinIndices(1, FirstFailure)
    /\ err = "StopIteration" => FailingRecords = {} /\ pos = Len(archive)
    /\ err \notin {NoError, "StopIteration"} =>
           /\ FailingRecords # {}
           /\ pos = FirstFailure
           /\ err = RaisedOn(archive[pos])

\* An archive of two *.bin records that the reader decodes and labels: the
\* first gave a sample that went through a user callable, the callable
\* raised on the second.
C8_Witness ==
    /\ Len(archive) = 2
    /\ HasBinName(archive[1]) /\ HasBinName(archive[2])
    /\ ReadRecord(archive[2]).raised = NoError
    /\ err = "RuntimeError"
    /\ yielded_from = <<1>>
    /\ \E fn \in Strict : Applied(fn)

UserFns(fn) == IF fn = None THEN << >> ELSE <<fn>>

\* What the documented order gives for a record: decode, then the saccade
\* filter if first_saccade_only, then transforms alone on the sample, or else
\* transform on the events and target_transform on the label
ExpectedSample(r) ==
    LET d == _bin_to_array(r[2]).events
        e == IF cfg.first_saccade_only THEN SelectSeq(d, PastThreshold) ELSE d
        l == _get_target(r[1]).value
    IN IF cfg.transforms # None
       THEN [fns |-> <<cfg.transforms>>,
             val |-> <<[fns |-> << >>, val |-> e], [fns |-> << >>, val |-> l]>>]
       ELSE [fns |-> << >>,
             val |-> <<[fns |-> UserFns(cfg.transform), val |-> e],
                       [fns |-> UserFns(cfg.target_transform), val |-> l]>>]

\* C10: the stages come in the order decode, saccade filter (only with
\* first_saccade_only), user transforms; with transforms, neither transform
\* nor target_transform is applied; without it, transform is applied to the
\* events only and target_transform to the label only.
C10_StageOrder ==
    /\ \A i, j \in 1..Len(dp) :
          /\ (dp[i].kind = "NMNISTFileReader" /\ dp[j].kind = "Mapper") => i < j
          /\ (dp[i].fn = "_saccade_filter" /\ dp[j].kind = "Mapper" /\ i # j) => i < j
    /\ (\E i \in 1..Len(dp) : dp[i].fn = "_saccade_filter") <=> cfg.first_saccade_only
    /\ \A k \in 1..Len(out) : out[k] = ExpectedSample(archive[yielded_from[k]])

====
